---- MODULE Spec2Model ----
(***************************************************************************)
(* Parameter animation and sequencing engine of the visual-patterns tool:  *)
(* the animation arbiter (store/slices/animation.slice.ts) and the         *)
(* loop-count-tracking step sequencer with its keyframe automation         *)
(* (store/slices/sequencer.slice.ts).                                      *)
(*                                                                         *)
(* JavaScript numbers are modelled as exact rationals in lowest terms, so  *)
(* that lerp, Math.round and the frame/step arithmetic are computed as the *)
(* code computes them, without the rounding of IEEE doubles.               *)
(***************************************************************************)
EXTENDS Integers, FiniteSets, Sequences, TLC

(* ------------------------------------------------------------------ *)
(* Numbers and values                                                  *)
(* ------------------------------------------------------------------ *)

RECURSIVE GCD(_, _)
GCD(a, b) == IF b = 0 THEN a ELSE GCD(b, a % b)

Abs(a) == IF a < 0 THEN -a ELSE a

\* A ControlSettings value: a number n/d, a gradient array or a string
\* (arrays and strings are told apart by content number n).
Number(n, d) ==
    LET g == GCD(Abs(n), d)
    IN  [kind |-> "number", n |-> n \div g, d |-> d \div g]

Num(i) == Number(i, 1)

Gradient(i) == [kind |-> "array", n |-> i, d |-> 1]

String(i) == [kind |-> "string", n |-> i, d |-> 1]

undefined == [kind |-> "undefined", n |-> 0, d |-> 1]

null == [kind |-> "null", n |-> 0, d |-> 1]

IsNumber(v) == v.kind = "number"

IsArray(v) == v.kind = "array"

Plus(a, b) == Number(a.n * b.d + b.n * a.d, a.d * b.d)

Minus(a, b) == Number(a.n * b.d - b.n * a.d, a.d * b.d)

Times(a, b) == Number(a.n * b.n, a.d * b.d)

\* a / b for b # 0
Over(a, b) ==
    IF b.n > 0 THEN Number(a.n * b.d, a.d * b.n)
    ELSE Number(-(a.n * b.d), a.d * (-b.n))

Less(a, b) == a.n * b.d < b.n * a.d

MathMin(a, b) == IF Less(b, a) THEN b ELSE a

MathMax(a, b) == IF Less(a, b) THEN b ELSE a

\* Math.round: the nearest integer, halves rounded up
MathRound(x) == Num((2 * x.n + x.d) \div (2 * x.d))

\* x % m for x >= 0 and an integer m > 0
Modulo(x, m) == Number(x.n % (m * x.d), x.d)

lerpOneMinusT(a, b, t) == Plus(Times(a, Minus(Num(1), t)), Times(b, t))

lerp(a, b, t) == lerpOneMinusT(a, b, t)

(* ------------------------------------------------------------------ *)
(* ControlSource priorities                                            *)
(* ------------------------------------------------------------------ *)

PatternSequencer == 0

PropertySequencer == 1

UI == 2

MIDI == 3

ControlSource == {PatternSequencer, PropertySequencer, UI, MIDI}

(* ------------------------------------------------------------------ *)
(* Bounds and domains of the model                                     *)
(* ------------------------------------------------------------------ *)

\* largest denominator of a start value from which a ramp may be requested
MaxDen == 1

\* most _animationLoop callbacks pending for one display frame
MaxRaf == 2

\* Date.now() when the model starts, in ms
PageLoad == 1000

\* the ticks the model follows after a play(): a loop and these
ExtraTicks == 3

\* the commands given to the sequencer and its sequence: play(), a BPM,
\* a control moved
MaxCommands == 3

\* how late a timer callback runs at most, in ms: less than a step
MaxJitter == 25

Jitters == {0, MaxJitter}

\* the instants per step at which the model looks at the automation
SubSteps == 2

\* ControlSettings keys of the model: a slider, the gradient, a string
Props == {"scaleBorderWidth", "gradientColors", "scaleBorderColor"}

ValuesOf(property) ==
    CASE property = "scaleBorderWidth" -> {Num(0), Num(10)}
      [] property = "gradientColors" -> {Gradient(1), Gradient(2)}
      [] property = "scaleBorderColor" -> {String(1), String(2)}

\* what the callers of the arbiter ask for: sliders are MIDI-mappable and can
\* be automated, so every source changes them, immediately or over an eighth
\* or a quarter of a step; the colour changes by hand or with a pattern
SourcesOf(property) ==
    IF property = "scaleBorderWidth" THEN {PatternSequencer, PropertySequencer, UI, MIDI} ELSE {UI}

StepsOf(property) ==
    IF property = "scaleBorderWidth" THEN {Num(0), Number(1, 8), Number(1, 4)}
    ELSE {Num(0), Number(1, 4)}

Bpms == {120, 150}

(* ------------------------------------------------------------------ *)
(* State                                                               *)
(* ------------------------------------------------------------------ *)

VARIABLES
    isSequencerPlaying,         \* project.globalSettings.isSequencerPlaying
    bpm,                        \* project.sequences[active].sequencer.bpm
    numSteps,                   \* ...sequencer.numSteps
    sequencerSteps,             \* ...sequencer.steps: pattern id or null per step
    propertyTracks,             \* ...sequencer.propertyTracks
    interpolationSpeed,         \* sequence.interpolationSpeed, in steps
    selectedPatternId,
    sequencerCurrentStep,
    sequencerTimeoutId,
    sequencerStartTime,
    sequencerLoopCount,
    propertySequencerRafId,
    now,                        \* Date.now()
    timers,                     \* pending setTimeout callbacks
    currentSettings,            \* resolved value of every parameter
    activeAnimations,           \* Map property -> ActiveAnimation
    transitionProgress,         \* gradient crossfade read by the shader
    previousGradient,
    previousBackgroundGradient,
    rafQueue,                   \* callbacks registered for the next display frame
    submitted,                  \* requestPropertyChange calls of the last handler
    last,                       \* the last handler that ran
    inFlightSource,             \* source of each parameter's latest in-flight
                                \* animation, -1 after a cancel
    tickInfo                    \* the ticks since play() and their timing

vars == <<isSequencerPlaying, bpm, numSteps, sequencerSteps, propertyTracks,
          interpolationSpeed, selectedPatternId, sequencerCurrentStep,
          sequencerTimeoutId, sequencerStartTime, sequencerLoopCount,
          propertySequencerRafId, now, timers,
          currentSettings, activeAnimations, transitionProgress,
          previousGradient, previousBackgroundGradient, rafQueue, submitted, last,
          inFlightSource, tickInfo>>

\* the store and the browser's scheduler as one value, for handlers that call
\* one another
World ==
    [isSequencerPlaying |-> isSequencerPlaying,
     bpm |-> bpm,
     numSteps |-> numSteps,
     steps |-> sequencerSteps,
     propertyTracks |-> propertyTracks,
     interpolationSpeed |-> interpolationSpeed,
     selectedPatternId |-> selectedPatternId,
     sequencerCurrentStep |-> sequencerCurrentStep,
     sequencerTimeoutId |-> sequencerTimeoutId,
     sequencerStartTime |-> sequencerStartTime,
     sequencerLoopCount |-> sequencerLoopCount,
     propertySequencerRafId |-> propertySequencerRafId,
     now |-> now,
     timers |-> timers,
     currentSettings |-> currentSettings,
     activeAnimations |-> activeAnimations,
     transitionProgress |-> transitionProgress,
     previousGradient |-> previousGradient,
     previousBackgroundGradient |-> previousBackgroundGradient,
     rafQueue |-> rafQueue,
     submitted |-> <<>>]

Commit(w) ==
    /\ isSequencerPlaying' = w.isSequencerPlaying
    /\ bpm' = w.bpm
    /\ numSteps' = w.numSteps
    /\ sequencerSteps' = w.steps
    /\ propertyTracks' = w.propertyTracks
    /\ interpolationSpeed' = w.interpolationSpeed
    /\ selectedPatternId' = w.selectedPatternId
    /\ sequencerCurrentStep' = w.sequencerCurrentStep
    /\ sequencerTimeoutId' = w.sequencerTimeoutId
    /\ sequencerStartTime' = w.sequencerStartTime
    /\ sequencerLoopCount' = w.sequencerLoopCount
    /\ propertySequencerRafId' = w.propertySequencerRafId
    /\ now' = w.now
    /\ timers' = w.timers
    /\ currentSettings' = w.currentSettings
    /\ activeAnimations' = w.activeAnimations
    /\ transitionProgress' = w.transitionProgress
    /\ previousGradient' = w.previousGradient
    /\ previousBackgroundGradient' = w.previousBackgroundGradient
    /\ rafQueue' = w.rafQueue
    /\ submitted' = w.submitted

(* ------------------------------------------------------------------ *)
(* Animation arbiter                                                   *)
(* ------------------------------------------------------------------ *)

MapDelete(m, k) == [q \in DOMAIN m \ {k} |-> m[q]]

\* every entry put under one key
MapSetOneKey(m, k, v) ==
    [q \in DOMAIN m \cup {"gradientColors"} |->
        IF q = "gradientColors" THEN v ELSE m[q]]

MapSet(m, k, v) == [q \in DOMAIN m \cup {k} |-> IF q = k THEN v ELSE m[q]]

size(m) == Cardinality(DOMAIN m)

\* settings[property]: undefined for a key the object does not have
valueOf(settings, property) ==
    IF property \in DOMAIN settings THEN settings[property] ELSE undefined

isGradient(property) ==
    property \in {"gradientColors", "backgroundGradientColors",
                  "concentric_gradientColors"}

\* ids of the browser's handles: the smallest one no pending callback has
NewId(pending) ==
    CHOOSE i \in 1..(Cardinality(pending) + 1) :
        /\ i \notin pending
        /\ \A j \in 1..(i - 1) : j \in pending

NewRafId(w) == NewId({w.rafQueue[i].id : i \in DOMAIN w.rafQueue})

\* a callback that is never registered
requestAnimationFrameDropped(w, fn) == w

requestAnimationFrame(w, fn) ==
    [w EXCEPT !.rafQueue = Append(@, [fn |-> fn, id |-> NewRafId(w)])]

cancelAnimationFrame(w, id) ==
    [w EXCEPT !.rafQueue = SelectSeq(@, LAMBDA c : c.id # id)]

NewTimerId(w) == NewId({t.id : t \in w.timers})

\* window.setTimeout(_tickSequencer, delay)
setTimeout(w, delay) ==
    [w EXCEPT !.timers = @ \cup {[id |-> NewTimerId(w), at |-> Plus(w.now, delay)]}]

clearTimeout(w, id) ==
    [w EXCEPT !.timers = {t \in @ : t.id # id}]

\* frames per step cut to a whole number instead of rounded
framesPerStepTruncated(b) ==
    LET effective == IF b = 0 THEN 120 ELSE b
        frames == Times(Over(Num(1), Times(Over(Num(effective), Num(60)), Num(4))),
                        Num(60))
    IN  MathMax(Num(1), Num(frames.n \div frames.d))

\* framesPerStep for the BPM in effect (bpm || 120, sixteenth notes, 60 fps)
framesPerStep(b) ==
    LET effective == IF b = 0 THEN 120 ELSE b
        secondsPerStep == Over(Num(1), Times(Over(Num(effective), Num(60)), Num(4)))
    IN  MathMax(Num(1), MathRound(Times(secondsPerStep, Num(60))))

totalFramesOf(steps, b) ==
    MathMax(Num(1), MathRound(Times(steps, framesPerStep(b)))).n

\* a request of equal priority ignored too
LowerPriorityOrEqual(source, existingSource) == source <= existingSource

\* the comparison turned round
HigherPriority(source, existingSource) == source > existingSource

\* source < existingAnimation.request.source: the request is ignored
LowerPriority(source, existingSource) == source < existingSource

\* progress computed from the frame counter before its increment
progressBeforeIncrement(animation) ==
    MathMin(Number(animation.currentFrame - 1, animation.totalFrames), Num(1))

\* progress of an animation after its frame counter was incremented
progressOf(animation) ==
    MathMin(Number(animation.currentFrame, animation.totalFrames), Num(1))

\* other kinds held at the start value until the animation completes
newValueSnapAtEnd(animation) ==
    LET from == animation.request.from
        to == animation.request.to
    IN  IF IsNumber(from) /\ IsNumber(to)
        THEN lerp(from, to, progressOf(animation))
        ELSE IF Less(progressOf(animation), Num(1)) THEN animation.startValue
        ELSE to

\* the value _animationLoop writes for one animation
newValueOf(animation) ==
    LET from == animation.request.from
        to == animation.request.to
    IN  IF IsNumber(from) /\ IsNumber(to)
        THEN lerp(from, to, progressOf(animation))
        ELSE to

_animationLoop(w) ==
    IF size(w.activeAnimations) = 0 THEN w
    ELSE
    LET old == w.activeAnimations
        stepped == [p \in DOMAIN old |->
                       [old[p] EXCEPT !.currentFrame = @ + 1]]
        gradients == {p \in DOMAIN old :
                         /\ IsArray(old[p].request.from)
                         /\ IsArray(old[p].request.to)
                         /\ isGradient(p)}
        hasGradientAnimation == gradients # {}
        maxGradientProgress ==
            CHOOSE m \in {progressOf(stepped[p]) : p \in gradients} :
                \A p \in gradients : ~Less(m, progressOf(stepped[p]))
        newSettings == [p \in DOMAIN w.currentSettings \cup DOMAIN old |->
                           IF p \in DOMAIN old THEN newValueOf(stepped[p])
                           ELSE w.currentSettings[p]]
        remaining == {p \in DOMAIN old : Less(progressOf(stepped[p]), Num(1))}
        newAnimations == [p \in remaining |-> stepped[p]]
        \* set({ previousGradient: from }) on the first frame of a gradient
        prevG == IF "gradientColors" \in gradients
                    /\ stepped["gradientColors"].currentFrame = 1
                 THEN old["gradientColors"].request.from
                 ELSE w.previousGradient
        prevBG == IF "backgroundGradientColors" \in gradients
                     /\ stepped["backgroundGradientColors"].currentFrame = 1
                  THEN old["backgroundGradientColors"].request.from
                  ELSE w.previousBackgroundGradient
        cleanup == ~hasGradientAnimation /\ (prevG # null \/ prevBG # null)
        w1 == [w EXCEPT
                 !.currentSettings = newSettings,
                 !.activeAnimations = newAnimations,
                 !.transitionProgress =
                     IF hasGradientAnimation THEN maxGradientProgress
                     ELSE IF cleanup THEN Num(1) ELSE @,
                 !.previousGradient = IF cleanup THEN null ELSE prevG,
                 !.previousBackgroundGradient = IF cleanup THEN null ELSE prevBG]
    IN  IF size(newAnimations) > 0
        THEN requestAnimationFrame(w1, "_animationLoop")
        ELSE w1

\* an immediate change that only cancels the animation
immediateChangeNoWrite(w, property, to) ==
    [w EXCEPT !.activeAnimations = MapDelete(@, property)]

\* an immediate change that empties the table
immediateChangeClearingTable(w, property, to) ==
    [w EXCEPT !.activeAnimations = <<>>,
              !.currentSettings = MapSet(@, property, to)]

\* steps === 0: delete the animation and write the value
immediateChange(w, property, to) ==
    [w EXCEPT !.activeAnimations = MapDelete(@, property),
              !.currentSettings = MapSet(@, property, to)]

requestPropertyChange(w0, property, from, to, steps, source) ==
    LET w == [w0 EXCEPT !.submitted = Append(@,
                  [property |-> property, from |-> from, to |-> to,
                   steps |-> steps, source |-> source])]
        startValue == IF from # undefined THEN from
                      ELSE valueOf(w.currentSettings, property)
        existing == property \in DOMAIN w.activeAnimations
    IN  IF existing /\ LowerPriority(source, w.activeAnimations[property].request.source)
        THEN w
        ELSE IF steps = Num(0)
        THEN immediateChange(w, property, to)
        ELSE
        LET request == [property |-> property, from |-> startValue, to |-> to,
                        steps |-> steps, source |-> source]
            animation == [request |-> request, currentFrame |-> 0,
                          totalFrames |-> totalFramesOf(steps, w.bpm),
                          startValue |-> startValue]
            newAnimations == MapSet(w.activeAnimations, property, animation)
            started ==
                IF isGradient(property) /\ IsArray(startValue)
                THEN IF property = "gradientColors"
                     THEN [w EXCEPT !.activeAnimations = newAnimations,
                                    !.previousGradient = startValue,
                                    !.transitionProgress = Num(0)]
                     ELSE IF property = "backgroundGradientColors"
                     THEN [w EXCEPT !.activeAnimations = newAnimations,
                                    !.previousBackgroundGradient = startValue,
                                    !.transitionProgress = Num(0)]
                     ELSE [w EXCEPT !.activeAnimations = newAnimations,
                                    !.transitionProgress = Num(0)]
                ELSE [w EXCEPT !.activeAnimations = newAnimations]
        IN  \* start the RAF loop if the table was empty before this request
            IF size(w.activeAnimations) = 0 THEN _animationLoop(started)
            ELSE started

cancelAllAnimations(w) == [w EXCEPT !.activeAnimations = <<>>]

\* a cancel for one parameter that empties the table
cancelEveryAnimation(w, property) == [w EXCEPT !.activeAnimations = <<>>]

cancelAnimationForProperty(w, property) ==
    [w EXCEPT !.activeAnimations = MapDelete(@, property)]

(* ------------------------------------------------------------------ *)
(* MIDI control change                                                 *)
(* ------------------------------------------------------------------ *)

\* declared ranges of the sliders of the model
controlConfigs ==
    [scaleBorderWidth |-> [min |-> Num(0), max |-> Num(10)]]

\* project.globalSettings.midiMappings: the slider is learnt on controller 1,
\* the border colour, which has no declared range, on controller 2
midiMappings == [scaleBorderWidth |-> 1, scaleBorderColor |-> 2]

\* a controller value scaled as a 7-bit fraction of 128
scaledBy128(config, value) ==
    Plus(config.min, Times(Over(Num(value), Num(128)),
                           Minus(config.max, config.min)))

\* config.min + (value / 127) * (config.max - config.min)
scaledValueOf(config, value) ==
    Plus(config.min, Times(Over(Num(value), Num(127)),
                           Minus(config.max, config.min)))

\* the control a controller number is mapped to, "" if none has a range
controlIdOf(controller) ==
    LET keys == {key \in DOMAIN midiMappings : midiMappings[key] = controller}
    IN  IF keys = {} THEN ""
        ELSE LET controlId == CHOOSE key \in keys : TRUE
             IN  IF controlId \in DOMAIN controlConfigs THEN controlId ELSE ""

\* the Control Change branch (command 176) with no mapping being learnt
_handleMidiMessage(w, controller, value) ==
    LET controlId == controlIdOf(controller)
    IN  IF controlId = "" THEN w
        ELSE requestPropertyChange(w, controlId, undefined,
                 scaledValueOf(controlConfigs[controlId], value), Num(0), MIDI)

(* ------------------------------------------------------------------ *)
(* The step sequencer and its keyframe automation                      *)
(* ------------------------------------------------------------------ *)

NaN == [kind |-> "NaN", n |-> 0, d |-> 1]

\* `if (v)` for an id, a timestamp or a pattern id
truthy(v) ==
    /\ v.kind \notin {"null", "undefined", "NaN"}
    /\ v.kind = "number" => v.n # 0

\* the patterns of the active sequence
patternId(i) == String(i)

patterns ==
    <<[id |-> patternId(1),
       settings |-> [scaleBorderWidth |-> Num(0), gradientColors |-> Gradient(1),
                     scaleBorderColor |-> String(1)]],
      [id |-> patternId(2),
       settings |-> [scaleBorderWidth |-> Num(10), gradientColors |-> Gradient(1),
                     scaleBorderColor |-> String(2)]]>>

\* patterns.find(p => p.id === id)
findPattern(id) ==
    IF \E i \in DOMAIN patterns : patterns[i].id = id
    THEN patterns[CHOOSE i \in DOMAIN patterns :
                     /\ patterns[i].id = id
                     /\ \A j \in 1..(i - 1) : patterns[j].id # id]
    ELSE undefined

\* Object.keys(newPattern.settings), in the order of the settings object
settingsKeys == <<"scaleBorderWidth", "gradientColors", "scaleBorderColor">>

\* the slider controls of the renderer's control schema
sliderConfigs == {"scaleBorderWidth"}

\* milliseconds per step: (60 / bpm) * 1000 / 4
stepDurationOf(b) == Over(Times(Over(Num(60), Num(b)), Num(1000)), Num(4))

\* (timeElapsed / stepDuration) % numSteps
fractionalStepOf(w) ==
    LET timeElapsed == IF truthy(w.sequencerStartTime)
                       THEN Minus(w.now, w.sequencerStartTime) ELSE Num(0)
    IN  Modulo(Over(timeElapsed, stepDurationOf(w.bpm)), w.numSteps)

\* [...track.keyframes].sort((a, b) => a.step - b.step)
RECURSIVE sortedKeyframesOf(_)
sortedKeyframesOf(keyframes) ==
    IF keyframes = <<>> THEN <<>>
    ELSE LET k == Head(keyframes)
             rest == sortedKeyframesOf(Tail(keyframes))
             before == Cardinality({i \in DOMAIN rest : Less(rest[i].step, k.step)})
         IN  SubSeq(rest, 1, before) \o <<k>> \o SubSeq(rest, before + 1, Len(rest))

\* sortedKeyframes.findIndex(k => k.step > fractionalStep), counted from 1,
\* 0 when no keyframe lies after the step
findIndexAfter(sortedKeyframes, fractionalStep) ==
    LET after == {i \in DOMAIN sortedKeyframes :
                     Less(fractionalStep, sortedKeyframes[i].step)}
    IN  IF after = {} THEN 0
        ELSE CHOOSE i \in after : \A j \in after : i <= j

\* the progress of the wrapping pair, as the sequencer computes it
wrapProgress(fractionalStep, prevStep, n) ==
    IF Less(prevStep, fractionalStep)
    THEN Minus(fractionalStep, prevStep)
    ELSE Plus(Minus(Num(n), prevStep), fractionalStep)

\* Math.max(0, Math.min(1, progress / stepDiff))
clampedRatio(progress, stepDiff) ==
    IF stepDiff.n = 0
    THEN IF progress.n = 0 THEN NaN
         ELSE IF progress.n > 0 THEN Num(1) ELSE Num(0)
    ELSE MathMax(Num(0), MathMin(Num(1), Over(progress, stepDiff)))

\* the value of a track with at least one keyframe at a fractional step
interpolatedValueOf(sortedKeyframes, fractionalStep, n) ==
    IF Len(sortedKeyframes) = 1 THEN sortedKeyframes[1].value
    ELSE LET nextIndex == findIndexAfter(sortedKeyframes, fractionalStep)
             wraps == nextIndex = 0 \/ nextIndex = 1
             prevKeyframe == IF wraps THEN sortedKeyframes[Len(sortedKeyframes)]
                             ELSE sortedKeyframes[nextIndex - 1]
             nextKeyframe == IF wraps THEN sortedKeyframes[1]
                             ELSE sortedKeyframes[nextIndex]
             forward == Less(prevKeyframe.step, nextKeyframe.step)
             stepDiff == IF forward THEN Minus(nextKeyframe.step, prevKeyframe.step)
                         ELSE Plus(Minus(Num(n), prevKeyframe.step), nextKeyframe.step)
             progress == IF forward THEN Minus(fractionalStep, prevKeyframe.step)
                         ELSE wrapProgress(fractionalStep, prevKeyframe.step, n)
             t == clampedRatio(progress, stepDiff)
         IN  IF t = NaN THEN NaN
             ELSE lerp(prevKeyframe.value, nextKeyframe.value, t)

\* tracks without a keyframe submit an undefined value
RECURSIVE applyTracksEmptyToo(_, _, _, _)
applyTracksEmptyToo(w, tracks, fractionalStep, settings) ==
    IF tracks = <<>> THEN w
    ELSE LET track == Head(tracks)
             sortedKeyframes == sortedKeyframesOf(track.keyframes)
             applied ==
                 IF track.property \notin sliderConfigs
                 THEN w
                 ELSE requestPropertyChange(w, track.property,
                          settings[track.property],
                          IF sortedKeyframes = <<>> THEN undefined
                          ELSE interpolatedValueOf(sortedKeyframes, fractionalStep,
                                                   w.numSteps),
                          Num(0), PropertySequencer)
         IN  applyTracksEmptyToo(applied, Tail(tracks), fractionalStep, settings)

\* propertyTracks.forEach: every slider track with a keyframe asks for its
\* value at the fractional step, immediately, as the property sequencer
RECURSIVE applyTracks(_, _, _, _)
applyTracks(w, tracks, fractionalStep, settings) ==
    IF tracks = <<>> THEN w
    ELSE LET track == Head(tracks)
             sortedKeyframes == sortedKeyframesOf(track.keyframes)
             applied ==
                 IF sortedKeyframes = <<>> \/ track.property \notin sliderConfigs
                 THEN w
                 ELSE requestPropertyChange(w, track.property,
                          settings[track.property],
                          interpolatedValueOf(sortedKeyframes, fractionalStep,
                                              w.numSteps),
                          Num(0), PropertySequencer)
         IN  applyTracks(applied, Tail(tracks), fractionalStep, settings)

\* arrays compared by reference: the array of one pattern is never the
\* array of another
changedKeysByReference(newSettings, baseSettings) ==
    SelectSeq(settingsKeys, LAMBDA key : \/ newSettings[key] # baseSettings[key]
                                         \/ IsArray(newSettings[key]))

\* the keys of the new pattern whose value differs from the base settings;
\* arrays by their JSON text
changedKeysOf(newSettings, baseSettings) ==
    SelectSeq(settingsKeys, LAMBDA key : newSettings[key] # baseSettings[key])

RECURSIVE requestChanges(_, _, _, _, _)
requestChanges(w, keys, baseSettings, newSettings, interpolationSteps) ==
    IF keys = <<>> THEN w
    ELSE requestChanges(
             requestPropertyChange(w, Head(keys), baseSettings[Head(keys)],
                                   newSettings[Head(keys)], interpolationSteps,
                                   PatternSequencer),
             Tail(keys), baseSettings, newSettings, interpolationSteps)

\* 1. load the base pattern of the step if it changes
loadPattern(w, patternIdToLoad, selected, settings) ==
    IF truthy(patternIdToLoad) /\ patternIdToLoad # selected
       /\ findPattern(patternIdToLoad) # undefined
    THEN LET newPattern == findPattern(patternIdToLoad)
             previousPattern == findPattern(selected)
             baseSettings == IF previousPattern # undefined
                             THEN previousPattern.settings ELSE settings
             changedKeys == changedKeysOf(newPattern.settings, baseSettings)
         IN  [requestChanges(w, changedKeys, baseSettings, newPattern.settings,
                             w.interpolationSpeed)
                 EXCEPT !.selectedPatternId = patternIdToLoad]
    ELSE w

\* the absolute target of the next tick
idealNextTimeOf(w, nextStep) ==
    Plus(w.sequencerStartTime,
         Times(Num(w.sequencerLoopCount * w.numSteps + nextStep),
               stepDurationOf(w.bpm)))

\* every tick one step after the tick that schedules it
scheduleNextTickRelative(w, nextStep) ==
    [setTimeout(w, stepDurationOf(w.bpm))
        EXCEPT !.sequencerTimeoutId = Num(NewTimerId(w))]

\* the next tick, against the start timestamp
scheduleNextTick(w, nextStep) ==
    LET delay == IF truthy(w.sequencerStartTime)
                 THEN MathMax(Num(0), Minus(idealNextTimeOf(w, nextStep), w.now))
                 ELSE stepDurationOf(w.bpm)
    IN  [setTimeout(w, delay) EXCEPT !.sequencerTimeoutId = Num(NewTimerId(w))]

\* the automation of the step, then its pattern
applyLayersAutomationFirst(w, stepped, patternIdToLoad) ==
    loadPattern(applyTracks(stepped, w.propertyTracks, fractionalStepOf(w),
                            w.currentSettings),
                patternIdToLoad, w.selectedPatternId, w.currentSettings)

\* 1. the pattern of the step, 2. the automation, with the settings and the
\* selection w the tick began with
applyLayers(w, stepped, patternIdToLoad) ==
    applyTracks(loadPattern(stepped, patternIdToLoad, w.selectedPatternId,
                            w.currentSettings),
                w.propertyTracks, fractionalStepOf(w), w.currentSettings)

\* a tick that counts a loop on every step 0, the first one included
_tickSequencerCountingFirstStep(w) ==
    IF ~w.isSequencerPlaying THEN w
    ELSE LET nextStep == (w.sequencerCurrentStep + 1) % w.numSteps
             newLoopCount == IF nextStep = 0 THEN w.sequencerLoopCount + 1
                             ELSE w.sequencerLoopCount
             stepped == [w EXCEPT !.sequencerCurrentStep = nextStep,
                                  !.sequencerLoopCount = newLoopCount]
             patternIdToLoad == IF nextStep + 1 \in DOMAIN w.steps
                                THEN w.steps[nextStep + 1] ELSE undefined
         IN  scheduleNextTick(applyLayers(w, stepped, patternIdToLoad), nextStep)

_tickSequencer(w) ==
    IF ~w.isSequencerPlaying THEN w
    ELSE LET nextStep == (w.sequencerCurrentStep + 1) % w.numSteps
             newLoopCount == IF nextStep = 0 /\ w.sequencerCurrentStep # -1
                             THEN w.sequencerLoopCount + 1
                             ELSE w.sequencerLoopCount
             stepped == [w EXCEPT !.sequencerCurrentStep = nextStep,
                                  !.sequencerLoopCount = newLoopCount]
             patternIdToLoad == IF nextStep + 1 \in DOMAIN w.steps
                                THEN w.steps[nextStep + 1] ELSE undefined
         IN  scheduleNextTick(applyLayers(w, stepped, patternIdToLoad), nextStep)

_updatePropertySequencer(w) ==
    IF ~w.isSequencerPlaying \/ ~truthy(w.sequencerStartTime) THEN w
    ELSE LET automated == applyTracks(w, w.propertyTracks, fractionalStepOf(w),
                                      w.currentSettings)
         IN  [requestAnimationFrame(automated, "_updatePropertySequencer")
                 EXCEPT !.propertySequencerRafId = Num(NewRafId(automated))]

\* the pending tick and the pending automation callback left alone
keepHandles(w) == w

\* clearTimeout(sequencerTimeoutId), cancelAnimationFrame(propertySequencerRafId)
clearHandles(w) ==
    LET cleared ==
            IF truthy(w.sequencerTimeoutId)
            THEN clearTimeout(w, w.sequencerTimeoutId.n) ELSE w
    IN  IF truthy(w.propertySequencerRafId)
        THEN cancelAnimationFrame(cleared, w.propertySequencerRafId.n)
        ELSE cleared

\* a play() that restarts the clock but keeps the position
resetStartTimeOnly(w) == [w EXCEPT !.sequencerStartTime = w.now]

\* set({sequencerCurrentStep: -1, sequencerStartTime: Date.now(),
\*      sequencerLoopCount: 0})
resetTransport(w) ==
    [w EXCEPT !.sequencerCurrentStep = -1,
              !.sequencerStartTime = w.now,
              !.sequencerLoopCount = 0]

setIsSequencerPlaying(w, isPlaying) ==
    LET flagged == [clearHandles(w) EXCEPT !.isSequencerPlaying = isPlaying]
    IN  IF isPlaying
        THEN _updatePropertySequencer(_tickSequencer(resetTransport(flagged)))
        ELSE [flagged EXCEPT !.sequencerTimeoutId = null,
                             !.propertySequencerRafId = null]

(* ------------------------------------------------------------------ *)
(* Keyframes of a property track; a track id is its place in the list  *)
(* ------------------------------------------------------------------ *)

\* no step ever counted as occupied
neverOccupied(keyframes, step) == FALSE

\* track.keyframes.some(k => k.step === step)
occupied(keyframes, step) ==
    \E i \in DOMAIN keyframes : keyframes[i].step = step

\* control.min + (control.max - control.min) * 0.5
defaultValueOf(control) ==
    Plus(control.min, Times(Minus(control.max, control.min), Number(1, 2)))

addKeyframe(w, trackId, step) ==
    IF trackId \notin DOMAIN w.propertyTracks THEN w
    ELSE LET track == w.propertyTracks[trackId]
         IN  IF occupied(track.keyframes, step) THEN w
             ELSE IF track.property \notin sliderConfigs THEN w
             ELSE [w EXCEPT !.propertyTracks[trackId].keyframes =
                      Append(@, [step |-> step,
                                 value |-> defaultValueOf(
                                              controlConfigs[track.property])])]

\* the first keyframe at the step gets the value
updateKeyframeValue(w, trackId, step, value) ==
    IF trackId \notin DOMAIN w.propertyTracks THEN w
    ELSE LET keyframes == w.propertyTracks[trackId].keyframes
             found == {i \in DOMAIN keyframes : keyframes[i].step = step}
         IN  IF found = {} THEN w
             ELSE LET first == CHOOSE i \in found : \A j \in found : i <= j
                  IN  [w EXCEPT !.propertyTracks[trackId].keyframes[first].value
                                    = value]

RECURSIVE filterOut(_, _)
\* keyframes.filter(k => k.step !== step)
filterOut(keyframes, step) ==
    IF keyframes = <<>> THEN <<>>
    ELSE IF Head(keyframes).step = step THEN filterOut(Tail(keyframes), step)
    ELSE <<Head(keyframes)>> \o filterOut(Tail(keyframes), step)

removeKeyframe(w, trackId, step) ==
    IF trackId \notin DOMAIN w.propertyTracks THEN w
    ELSE [w EXCEPT !.propertyTracks[trackId].keyframes = filterOut(@, step)]

(* ------------------------------------------------------------------ *)
(* Display frames                                                      *)
(* ------------------------------------------------------------------ *)

\* one callback registered with requestAnimationFrame
Callback(w, callback) ==
    CASE callback.fn = "_animationLoop" -> _animationLoop(w)
      [] callback.fn = "_updatePropertySequencer" -> _updatePropertySequencer(w)

\* the browser runs every callback registered before the frame, in order;
\* what they register runs in the next frame
RECURSIVE RunCallbacks(_, _)
RunCallbacks(w, queue) ==
    IF queue = <<>> THEN w
    ELSE RunCallbacks(Callback(w, Head(queue)), Tail(queue))

DisplayFrame(w) == RunCallbacks([w EXCEPT !.rafQueue = <<>>], w.rafQueue)

(* ------------------------------------------------------------------ *)
(* Clock mutation API                                                  *)
(* ------------------------------------------------------------------ *)

\* a tempo change that rescales the animations in flight to the new tempo
setSequencerBpmRescaling(w, b) ==
    [w EXCEPT !.bpm = b,
              !.activeAnimations =
                  [p \in DOMAIN w.activeAnimations |->
                      [w.activeAnimations[p] EXCEPT
                          !.totalFrames =
                              totalFramesOf(w.activeAnimations[p].request.steps, b)]]]

setSequencerBpm(w, b) == [w EXCEPT !.bpm = b]

\* seq.numSteps = numSteps, and seq.steps padded with null or cut to that
\* length; `seq.steps.length = numSteps` throws a RangeError for a negative
\* length inside produce(), and then the project is not replaced
setSequencerNumSteps(w, n) ==
    IF n < 0 THEN w
    ELSE [w EXCEPT !.numSteps = n,
                   !.steps = IF n > Len(@)
                             THEN @ \o [i \in 1..(n - Len(@)) |-> null]
                             ELSE SubSeq(@, 1, n)]

(* ------------------------------------------------------------------ *)
(* The arbiter driven by its callers (UI, MIDI, sequencers) and frames *)
(* ------------------------------------------------------------------ *)

\* the handler that ran and the number it was given, the animations it
\* removed from the table, whether it was a play() of a running sequencer,
\* and the source of the animation each parameter is left with
HistoryOf(op, property, data, w) ==
    /\ Commit(w)
    /\ last' = [op |-> op, property |-> property, data |-> data,
                removed |-> DOMAIN activeAnimations \ DOMAIN w.activeAnimations,
                restart |-> op = "play" /\ isSequencerPlaying]
    /\ inFlightSource' =
          [p \in Props |->
              IF op = "cancelAllAnimations"
                 \/ (op = "cancelAnimationForProperty" /\ p = property)
              THEN -1
              ELSE IF p \in DOMAIN w.activeAnimations
              THEN w.activeAnimations[p].request.source
              ELSE inFlightSource[p]]

History(op, property, w) == HistoryOf(op, property, 0, w)

Step(op, property, w) ==
    /\ History(op, property, w)
    /\ UNCHANGED tickInfo

StartValueOf(property, from) ==
    IF from # undefined THEN from ELSE valueOf(currentSettings, property)

Request(property, from, to, steps, source) ==
    /\ steps # Num(0) => StartValueOf(property, from).d <= MaxDen
    /\ \E w \in {requestPropertyChange(World, property, from, to, steps, source)} :
          /\ Len(w.rafQueue) <= MaxRaf
          /\ Step("requestPropertyChange", property, w)

Frame ==
    /\ rafQueue # <<>>
    /\ \E w \in {DisplayFrame(World)} : Step("frame", "", w)

CancelAll ==
    \E w \in {cancelAllAnimations(World)} : Step("cancelAllAnimations", "", w)

CancelFor(property) ==
    \E w \in {cancelAnimationForProperty(World, property)} :
        Step("cancelAnimationForProperty", property, w)

SetBpm(b) ==
    /\ tickInfo.commands < MaxCommands
    /\ \E w \in {setSequencerBpm(World, b)} :
          /\ HistoryOf("setSequencerBpm", "", b, w)
          /\ tickInfo' = [tickInfo EXCEPT !.steady = @ /\ b = bpm,
                                          !.commands = @ + 1]

SetNumSteps(n) ==
    /\ tickInfo.commands < MaxCommands
    /\ \E w \in {setSequencerNumSteps(World, n)} :
          /\ HistoryOf("setSequencerNumSteps", "", n, w)
          /\ tickInfo' = [tickInfo EXCEPT !.steady = @ /\ w.numSteps = numSteps,
                                          !.commands = @ + 1]

InitialSettings ==
    [p \in Props |->
        CASE p = "scaleBorderWidth" -> Num(0)
          [] p = "gradientColors" -> Gradient(1)
          [] p = "scaleBorderColor" -> String(1)]

\* the store before a project plays: no pattern on any step, no track
Stopped ==
    /\ isSequencerPlaying = FALSE
    /\ selectedPatternId = null
    /\ sequencerCurrentStep = 0
    /\ sequencerTimeoutId = null
    /\ sequencerStartTime = null
    /\ sequencerLoopCount = 0
    /\ propertySequencerRafId = null
    /\ now = Num(PageLoad)
    /\ timers = {}
    /\ tickInfo = [plays |-> 0, ticks |-> 0, lateness |-> Num(0),
                   jitter |-> Num(0), onTime |-> TRUE, steady |-> TRUE,
                   commands |-> 0]

\* the arbiter with the initial settings and nothing in flight
Settled ==
    /\ currentSettings = InitialSettings
    /\ activeAnimations = <<>>
    /\ transitionProgress = Num(1)
    /\ previousGradient = null
    /\ previousBackgroundGradient = null
    /\ rafQueue = <<>>
    /\ submitted = <<>>
    /\ last = [op |-> "init", property |-> "", data |-> 0, removed |-> {},
               restart |-> FALSE]
    /\ inFlightSource = [p \in Props |-> -1]

Init ==
    /\ Stopped
    /\ numSteps = 16
    /\ sequencerSteps = [i \in 1..16 |-> null]
    /\ propertyTracks = <<>>
    /\ interpolationSpeed = Num(2)
    /\ bpm = 120
    /\ Settled

Next ==
    \/ \E property \in {"scaleBorderWidth", "scaleBorderColor"} :
         \E steps \in StepsOf(property), source \in SourcesOf(property),
            to \in ValuesOf(property) :
            Request(property, undefined, to, steps, source)
    \/ Frame
    \/ CancelAll
    \/ \E property \in {"scaleBorderWidth", "scaleBorderColor"} : CancelFor(property)

Spec == Init /\ [][Next]_vars

(* ------------------------------------------------------------------ *)
(* The sequencer driven by play, stop, its timer and the clock         *)
(* ------------------------------------------------------------------ *)

\* play() and stop() of the transport; play runs tick 0 before it returns
\* a clock with bpm 0 has a step duration of Infinity and one with 0 steps a
\* step index of NaN: the model follows the ticks of no such clock
Finite == bpm # 0 /\ numSteps # 0

Play ==
    /\ tickInfo.commands < MaxCommands
    /\ Finite
    /\ \E w \in {setIsSequencerPlaying(World, TRUE)} :
          /\ History("play", "", w)
          /\ tickInfo' = [plays |-> tickInfo.plays + 1, ticks |-> 1,
                          lateness |-> Num(0), jitter |-> Num(0),
                          onTime |-> TRUE, steady |-> TRUE,
                          commands |-> tickInfo.commands + 1]

Stop ==
    \E w \in {setIsSequencerPlaying(World, FALSE)} : Step("stop", "", w)

\* the earliest pending timeout runs _tickSequencer, late by a jitter
TimerFire(jitter) ==
    \E t \in timers :
        /\ \A u \in timers : ~Less(u.at, t.at)
        /\ tickInfo.ticks < numSteps + ExtraTicks
        /\ Finite
        /\ LET at == MathMax(now, Plus(t.at, Num(jitter)))
           IN  \E w \in {_tickSequencer([World EXCEPT !.now = at,
                                                      !.timers = @ \ {t}])} :
                   /\ History("tick", "", w)
                   /\ tickInfo' =
                         [plays |-> tickInfo.plays,
                          ticks |-> tickInfo.ticks + 1,
                          lateness |-> Minus(at, idealNextTimeOf(World,
                                                     sequencerCurrentStep)),
                          jitter |-> Minus(at, t.at),
                          onTime |-> tickInfo.onTime /\ at = t.at,
                          steady |-> tickInfo.steady,
                          commands |-> tickInfo.commands]

\* time passes, up to the next timeout
Elapse(dt) ==
    LET later == Plus(now, dt)
    IN  /\ isSequencerPlaying
        /\ \A t \in timers : ~Less(t.at, later)
        /\ Step("elapse", "", [World EXCEPT !.now = later])

\* a 16-step or a 4-step sequence with no pattern on its steps and no track
InitClock ==
    /\ Stopped
    /\ numSteps \in {4, 16}
    /\ sequencerSteps = [i \in 1..numSteps |-> null]
    /\ propertyTracks = <<>>
    /\ interpolationSpeed = Num(2)
    /\ bpm = 120
    /\ Settled

NextClock ==
    \/ Play
    \/ Stop
    \/ \E b \in Bpms : SetBpm(b)
    \/ \E jitter \in Jitters : TimerFire(jitter)
    \/ Frame

SpecClock == InitClock /\ [][NextClock]_vars

(* ------------------------------------------------------------------ *)
(* Claims about the arbiter                                            *)
(* ------------------------------------------------------------------ *)

\* the one call of a Request step
Call == submitted[1]

Requested == last.op = "requestPropertyChange"

ArbiterState == <<bpm, currentSettings, activeAnimations, transitionProgress,
                  previousGradient, previousBackgroundGradient, rafQueue>>

\* C1: a request for a parameter with an animation in flight replaces that
\* animation iff its source priority is >= the priority of the animation in
\* flight (an immediate request removes it and writes the value, an animated
\* one puts the new animation at frame 0 in its place); a request of lower
\* priority changes neither the table nor any resolved value nor what is
\* scheduled.
ArbitrationI2 ==
    [][(Requested' /\ Call'.property \in DOMAIN activeAnimations) =>
        LET call == Call'
            p == call.property
            existing == activeAnimations[p]
        IN  IF call.source >= existing.request.source
            THEN IF call.steps = Num(0)
                 THEN /\ p \notin DOMAIN activeAnimations'
                      /\ currentSettings'[p] = call.to
                 ELSE /\ p \in DOMAIN activeAnimations'
                      /\ activeAnimations'[p].request.source = call.source
                      /\ activeAnimations'[p].request.to = call.to
                      /\ activeAnimations'[p].request.steps = call.steps
                      /\ activeAnimations'[p].currentFrame = 0
            ELSE UNCHANGED ArbiterState]_vars

\* C1 witness: a request was just made by a source below the one of the
\* animation in flight, which is still in the table
ArbitrationDropped ==
    /\ Requested
    /\ Call.property \in DOMAIN activeAnimations
    /\ Call.source < activeAnimations[Call.property].request.source
    /\ Call.to # currentSettings[Call.property]

\* C2 as stated: after an immediate request the resolved value is the
\* requested one, whatever was in flight
ImmediateAlwaysWrites ==
    (Requested /\ Call.steps = Num(0)) => currentSettings[Call.property] = Call.to

\* C2 amended: an immediate request leaves the resolved value at the
\* requested one and no animation for the parameter, unless an animation of
\* strictly higher priority is in flight for it when the call is made.
ImmediateWritesUnlessOutranked ==
    [][(Requested' /\ Call'.steps = Num(0)) =>
        LET p == Call'.property
        IN  \/ /\ p \in DOMAIN activeAnimations
               /\ Call'.source < activeAnimations[p].request.source
            \/ /\ currentSettings'[p] = Call'.to
               /\ p \notin DOMAIN activeAnimations']_vars

\* C2 witness: an immediate request has just removed an animation and written
\* a new value
ImmediateReplaced ==
    /\ Requested
    /\ Call.steps = Num(0)
    /\ Call.property \in last.removed
    /\ currentSettings[Call.property] = Call.to

\* C4 as stated: over the states in which a parameter has an animation in
\* flight its source priority never decreases unless a cancel came in between
PriorityNeverDecreases ==
    [][\A p \in DOMAIN activeAnimations' :
          activeAnimations'[p].request.source >= inFlightSource[p]]_vars

\* C4 amended: from one state to the next, a parameter that has an animation
\* in flight in both never goes to an animation of lower source priority;
\* after the animation completed or was removed by an immediate request (or
\* a cancel) an animation of any priority may follow.
PriorityMonotoneWhileInFlight ==
    [][\A p \in DOMAIN activeAnimations \cap DOMAIN activeAnimations' :
          activeAnimations'[p].request.source >= activeAnimations[p].request.source]_vars

\* C4 witness: a request has just replaced an animation by one of strictly
\* higher priority
PriorityRaised ==
    /\ Requested
    /\ Call.property \in DOMAIN activeAnimations
    /\ activeAnimations[Call.property].currentFrame = 0
    /\ inFlightSource[Call.property] = Call.source
    /\ Call.source = MIDI
    /\ Cardinality(DOMAIN activeAnimations) = 2

BothNumbers(animation) ==
    IsNumber(animation.request.from) /\ IsNumber(animation.request.to)

\* C8: the advance in which a numeric animation's frame counter reaches
\* totalFrames writes exactly its target value and removes it from the table
\* (in a display frame, and in the request itself when the loop is started
\* for a one-frame animation); an animation leaves the table of a frame only
\* with its target written.
CompletionExact ==
    [][/\ last'.op = "frame" =>
            \A p \in DOMAIN activeAnimations :
               LET animation == activeAnimations[p]
               IN  BothNumbers(animation) =>
                     /\ animation.currentFrame + 1 = animation.totalFrames
                           => p \notin DOMAIN activeAnimations'
                     /\ p \notin DOMAIN activeAnimations'
                           => currentSettings'[p] = animation.request.to
       /\ (Requested' /\ Call'.steps # Num(0) /\ activeAnimations = <<>>
             /\ IsNumber(Call'.to) /\ totalFramesOf(Call'.steps, bpm) = 1) =>
            /\ Call'.property \notin DOMAIN activeAnimations'
            /\ currentSettings'[Call'.property] = Call'.to]_vars

\* C8 witness: a frame has just completed a ramp of the slider that had
\* written an intermediate value before
CompletionReached ==
    /\ last.op = "frame"
    /\ "scaleBorderWidth" \in last.removed
    /\ currentSettings["scaleBorderWidth"] = Num(10)
    /\ inFlightSource["scaleBorderWidth"] = UI

Keyframe(step, value) == [step |-> Num(step), value |-> Num(value)]

\* tracks of the slider with two or three keyframes at unique steps, in the
\* order they were added
TracksOf(n) ==
    IF n = 16
    THEN {<<Keyframe(14, 0), Keyframe(2, 10)>>}
    ELSE {<<Keyframe(a, 10), Keyframe(b, 5)>> : a \in {0, 3}, b \in {1, 2}}
         \cup {<<Keyframe(0, 10), Keyframe(2, 0), Keyframe(3, 5)>>}

InitInterp ==
    /\ Stopped
    /\ numSteps \in {4, 16}
    /\ sequencerSteps = [i \in 1..numSteps |-> null]
    /\ \E keyframes \in TracksOf(numSteps) :
          propertyTracks = <<[property |-> "scaleBorderWidth",
                              keyframes |-> keyframes]>>
    /\ interpolationSpeed = Num(2)
    /\ bpm = 120
    /\ Settled

NextInterp ==
    \/ Play
    \/ TimerFire(0)
    \/ Elapse(Over(stepDurationOf(bpm), Num(SubSteps)))
    \/ Frame

SpecInterp == InitInterp /\ [][NextInterp]_vars

(* ------------------------------------------------------------------ *)
(* A sequence with patterns on its steps and an automated slider       *)
(* ------------------------------------------------------------------ *)

\* a control moved by hand or by a MIDI controller
Move(property, to, steps, source) ==
    /\ tickInfo.commands < MaxCommands
    /\ StartValueOf(property, undefined).d <= MaxDen
    /\ \E w \in {requestPropertyChange(World, property, undefined, to, steps,
                                        source)} :
          /\ Len(w.rafQueue) <= MaxRaf
          /\ History("requestPropertyChange", property, w)
          /\ tickInfo' = [tickInfo EXCEPT !.commands = @ + 1]

\* four steps, the second pattern on step 0 and the first on step 2, and a
\* track of the slider that both patterns set; patterns load at once or
\* over a quarter of a step
InitSeq ==
    /\ Stopped
    /\ numSteps = 4
    /\ sequencerSteps = <<patternId(2), null, patternId(1), null>>
    /\ propertyTracks = <<[property |-> "scaleBorderWidth",
                           keyframes |-> <<Keyframe(0, 0), Keyframe(2, 10)>>]>>
    /\ interpolationSpeed \in {Num(0), Number(1, 4)}
    /\ bpm = 120
    /\ Settled

NextSeq ==
    \/ Play
    \/ Stop
    \/ TimerFire(0)
    \/ Frame
    \/ \E source \in {UI, MIDI}, to \in ValuesOf("scaleBorderWidth") :
         Move("scaleBorderWidth", to, Number(1, 4), source)

SpecSeq == InitSeq /\ [][NextSeq]_vars

(* ------------------------------------------------------------------ *)
(* Claims about the clock of the sequencer                             *)
(* ------------------------------------------------------------------ *)

Ticked == last.op \in {"play", "tick"} /\ isSequencerPlaying

\* the timeout the sequencer holds the id of
ScheduledTick == {t \in timers : Num(t.id) = sequencerTimeoutId}

\* C5: at a fixed BPM and step count every tick the timer runs is late, on
\* the absolute target it was scheduled against (the start timestamp plus
\* the absolute step count times the step duration), by no more than the
\* jitter of its own timer callback, callbacks being late by less than a
\* step: the lateness of the ticks before it is not added, whatever the
\* number of ticks and of loop wraps.
DriftBound ==
    (last.op = "tick" /\ isSequencerPlaying /\ tickInfo.steady) =>
        /\ ~Less(tickInfo.lateness, Num(0))
        /\ ~Less(tickInfo.jitter, tickInfo.lateness)

\* a late tick after a late tick, past the first wrap of a 16-step loop
DriftAfterWrap ==
    /\ last.op = "tick" /\ isSequencerPlaying /\ tickInfo.steady
    /\ numSteps = 16 /\ sequencerLoopCount = 1 /\ sequencerCurrentStep = 1
    /\ tickInfo.jitter = Num(MaxJitter)
    /\ tickInfo.lateness = Num(MaxJitter)

\* C6: after the tick of step nextStep the next tick is due at
\* max(now, startTimestamp + (loopCount * stepCount + nextStep + 1) *
\* stepDurationMs); so at 120 BPM with 16 steps and callbacks on time, tick
\* k runs 125 * k ms after play(): tick 1 at 125 ms, tick 16 at 2000 ms.
TickScheduleAsSpecified ==
    (Ticked /\ tickInfo.steady) =>
        /\ \E t \in ScheduledTick :
              t.at = MathMax(now,
                        Plus(sequencerStartTime,
                             Times(Num(sequencerLoopCount * numSteps
                                       + sequencerCurrentStep + 1),
                                   stepDurationOf(bpm))))
        /\ (bpm = 120 /\ numSteps = 16 /\ tickInfo.onTime) =>
              Minus(now, sequencerStartTime) = Num(125 * (tickInfo.ticks - 1))

(* ------------------------------------------------------------------ *)
(* Claims about the keyframe automation                                *)
(* ------------------------------------------------------------------ *)

\* the requests of the property sequencer among the calls of the last step
Automated == {i \in DOMAIN submitted : submitted[i].source = PropertySequencer}

\* the value of the circular interpolation at step s as the specification
\* writes it: progress and stepDiff are taken modulo the step count
circularValue(sortedKeyframes, s, n) ==
    LET nextIndex == findIndexAfter(sortedKeyframes, s)
        wraps == nextIndex = 0 \/ nextIndex = 1
        prev == IF wraps THEN sortedKeyframes[Len(sortedKeyframes)]
                ELSE sortedKeyframes[nextIndex - 1]
        next == IF wraps THEN sortedKeyframes[1] ELSE sortedKeyframes[nextIndex]
        diff == Minus(next.step, prev.step)
        stepDiff == IF Less(diff, Num(0)) THEN Plus(diff, Num(n)) ELSE diff
        gone == Minus(s, prev.step)
        progress == IF Less(gone, Num(0)) THEN Plus(gone, Num(n)) ELSE gone
        t == MathMax(Num(0), MathMin(Num(1), Over(progress, stepDiff)))
    IN  Plus(Times(prev.value, Minus(Num(1), t)), Times(next.value, t))

\* C7: for a track with two or more keyframes at unique steps the automated
\* value at step s is lerp(prev.value, next.value, t) with next the first
\* keyframe after s, prev the keyframe before it (the last and the first
\* keyframe when s lies before the first or at or after the last keyframe),
\* stepDiff = next.step - prev.step and progress = s - prev.step, each plus
\* the step count if negative, and t = clamp(progress / stepDiff, 0, 1);
\* keyframes {14: 0} and {2: 10} on 16 steps give 5 at s = 0.
CircularInterpolation ==
    \A i \in Automated :
        LET keyframes == sortedKeyframesOf(propertyTracks[1].keyframes)
        IN  /\ submitted[i].to
                  = circularValue(keyframes, fractionalStepOf(World), numSteps)
            /\ (numSteps = 16 /\ fractionalStepOf(World) = Num(0)
                 /\ keyframes = <<Keyframe(2, 10), Keyframe(14, 0)>>)
                  => submitted[i].to = Num(5)

(* ------------------------------------------------------------------ *)
(* Claims about the layers of a tick and about stop()                  *)
(* ------------------------------------------------------------------ *)

PatternRequests(calls, property) ==
    {i \in DOMAIN calls : /\ calls[i].source = PatternSequencer
                          /\ calls[i].property = property}

AutomationRequests(calls, property) ==
    {i \in DOMAIN calls : /\ calls[i].source = PropertySequencer
                          /\ calls[i].property = property}

\* C3: a tick submits every pattern request before any automation request,
\* and when it submits both for a parameter that has no UI or MIDI animation
\* in flight, the parameter has the automated value after the tick and no
\* pattern animation of it is left in the table.
LayeringInTick ==
    [][last'.op \in {"play", "tick"} =>
        /\ \A p, q \in Props :
              \A i \in PatternRequests(submitted', p),
                 j \in AutomationRequests(submitted', q) : i < j
        /\ \A p \in Props :
              (/\ PatternRequests(submitted', p) # {}
               /\ AutomationRequests(submitted', p) # {}
               /\ ~(/\ p \in DOMAIN activeAnimations
                    /\ activeAnimations[p].request.source \in {UI, MIDI}))
              => /\ \A j \in AutomationRequests(submitted', p) :
                       currentSettings'[p] = submitted'[j].to
                 /\ p \notin DOMAIN activeAnimations']_vars

\* a tick that loads a pattern over a quarter of a step and automates the
\* slider the pattern sets: the slider has the automated value
LayeredTick ==
    /\ last.op = "tick"
    /\ interpolationSpeed # Num(0)
    /\ \E i \in PatternRequests(submitted, "scaleBorderWidth"),
          j \in AutomationRequests(submitted, "scaleBorderWidth") :
          /\ submitted[i].to # submitted[j].to
          /\ currentSettings["scaleBorderWidth"] = submitted[j].to
    /\ "scaleBorderWidth" \notin DOMAIN activeAnimations
    /\ "scaleBorderColor" \in DOMAIN activeAnimations

PendingAutomation ==
    {i \in DOMAIN rafQueue : rafQueue[i].fn = "_updatePropertySequencer"}

\* C10: stop() cancels the pending tick and the pending automation callback
\* and changes no resolved value; while the sequencer stays stopped no step
\* submits a request of the sequencer or changes currentStep or loopCount.
StopHalts ==
    [][/\ last'.op = "stop" =>
            /\ currentSettings' = currentSettings
            /\ timers' = {}
            /\ PendingAutomation' = {}
       /\ (~isSequencerPlaying /\ ~isSequencerPlaying') =>
            /\ sequencerCurrentStep' = sequencerCurrentStep
            /\ sequencerLoopCount' = sequencerLoopCount
            /\ \A i \in DOMAIN submitted' :
                  submitted'[i].source \notin {PatternSequencer, PropertySequencer}]_vars

\* a display frame after the sequencer was stopped in its third step, with an
\* animation of a pattern still in flight
StoppedMidLoop ==
    /\ ~isSequencerPlaying
    /\ last.op = "frame"
    /\ tickInfo.ticks = 3
    /\ timers = {}
    /\ PendingAutomation = {}
    /\ activeAnimations # <<>>

\* C11: stop() leaves no animation in flight, so once it has returned no
\* resolved value changes before a new request or play(): the display frame
\* that follows stop() changes none.
FrozenAfterStop ==
    [][/\ last'.op = "stop" => activeAnimations' = <<>>
       /\ (last.op = "stop" /\ last'.op = "frame") =>
            currentSettings' = currentSettings]_vars

\* C12: when play() returns, whether the sequencer was stopped or running,
\* the sequencer is playing at step 0 of loop 0 with the start timestamp at
\* the time of the call, the one tick it ran has scheduled the next one, and
\* that is the only tick pending.
PlayRestarts ==
    last.op = "play" =>
        /\ isSequencerPlaying
        /\ sequencerCurrentStep = 0
        /\ sequencerLoopCount = 0
        /\ sequencerStartTime = now
        /\ Cardinality(timers) = 1
        /\ ScheduledTick = timers

\* play() was called while the sequencer was running, in the second loop of
\* four steps
PlayedWhileRunning ==
    /\ last.op = "play"
    /\ last.restart
    /\ numSteps = 4
    /\ tickInfo.plays = 2
    /\ sequencerCurrentStep = 0
    /\ \E t \in timers : t.at = now

(* ------------------------------------------------------------------ *)
(* A MIDI controller moved while the slider is animated                *)
(* ------------------------------------------------------------------ *)

\* controller 3 is mapped to nothing
Controllers == {1, 2, 3}

\* the ends and the middle of the 7-bit range
ControllerValues == {0, 64, 127}

ControlChange(controller, value) ==
    \E w \in {_handleMidiMessage(World, controller, value)} :
        /\ HistoryOf("_handleMidiMessage", controlIdOf(controller), value, w)
        /\ UNCHANGED tickInfo

NextMidi ==
    \/ \E steps \in StepsOf("scaleBorderWidth"),
          source \in SourcesOf("scaleBorderWidth"),
          to \in ValuesOf("scaleBorderWidth") :
          Request("scaleBorderWidth", undefined, to, steps, source)
    \/ Frame
    \/ \E controller \in Controllers, value \in ControllerValues :
          ControlChange(controller, value)

SpecMidi == Init /\ [][NextMidi]_vars

NegativeSteps == {Number(-1, 4)}

\* a key that ControlSettings does not have
unknownProperty == "scaleBorderRadius"

\* the slider moved by a pattern or by hand, at once, over a quarter of a
\* step or over a negative number of steps, and a key that is not a setting
NextMalformed ==
    \/ \E steps \in {Num(0), Number(1, 4)} \cup NegativeSteps,
          source \in {PatternSequencer, UI},
          to \in ValuesOf("scaleBorderWidth") :
          Request("scaleBorderWidth", undefined, to, steps, source)
    \/ \E steps \in {Num(0), Number(1, 4)} :
          Request(unknownProperty, undefined, Num(10), steps, UI)
    \/ Frame

SpecMalformed == Init /\ [][NextMalformed]_vars

\* C14: in every state a request with a negative number of steps leaves the
\* resolved values and the animation table as the same request with 0 steps
\* leaves them: the value written within the call, no animation of the
\* parameter in the table.
NegativeStepsAreImmediate ==
    [][(Requested' /\ Less(Call'.steps, Num(0))) =>
        LET immediate == requestPropertyChange(World, Call'.property,
                             Call'.from, Call'.to, Num(0), Call'.source)
        IN  /\ currentSettings' = immediate.currentSettings
            /\ activeAnimations' = immediate.activeAnimations]_vars

\* C15: a request that names a key ControlSettings does not have changes
\* neither the resolved values nor the animation table.
UnknownParameterIgnored ==
    [][(Requested' /\ Call'.property \notin Props) =>
        UNCHANGED <<currentSettings, activeAnimations>>]_vars

(* ------------------------------------------------------------------ *)
(* The clock of a sequence set through the mutation API                *)
(* ------------------------------------------------------------------ *)

\* what setSequencerBpm is called with: a tempo, zero, a negative tempo
BpmInputs == {150, 0, -120}

\* what setSequencerNumSteps is called with
NumStepsInputs == {8, 2, 0, -4}

InitApi ==
    /\ Stopped
    /\ numSteps = 4
    /\ sequencerSteps = <<patternId(2), null, patternId(1), null>>
    /\ propertyTracks = <<>>
    /\ interpolationSpeed = Num(0)
    /\ bpm = 120
    /\ Settled

NextApi ==
    \/ \E b \in BpmInputs : SetBpm(b)
    \/ \E n \in NumStepsInputs : SetNumSteps(n)
    \/ Play
    \/ Stop
    \/ TimerFire(0)
    \/ Frame

SpecApi == InitApi /\ [][NextApi]_vars

\* C16: setSequencerBpm with bpm <= 0 leaves the stored bpm and
\* setSequencerNumSteps with numSteps <= 0 leaves the stored step count as
\* they were, so that no tick runs with bpm <= 0 or a step count <= 0.
ClockMisconfigurationRejected ==
    [][/\ (last'.op = "setSequencerBpm" /\ last'.data <= 0) => bpm' = bpm
       /\ (last'.op = "setSequencerNumSteps" /\ last'.data <= 0) =>
             (numSteps' = numSteps /\ sequencerSteps' = sequencerSteps)
       /\ (last'.op \in {"play", "tick"} /\ isSequencerPlaying') =>
             (bpm > 0 /\ numSteps > 0)]_vars

(* ------------------------------------------------------------------ *)
(* Tracks edited while the sequencer is in its first step              *)
(* ------------------------------------------------------------------ *)

\* the two tracks of the sequence and an id no track has
TrackIds == {1, 2, 3}

\* the steps a keyframe is put on
KeyframeSteps == {Num(0), Num(2)}

AddKeyframe(trackId, step) ==
    \E w \in {addKeyframe(World, trackId, step)} :
        /\ HistoryOf("addKeyframe", "", <<trackId, step>>, w)
        /\ UNCHANGED tickInfo

UpdateKeyframeValue(trackId, step, value) ==
    \E w \in {updateKeyframeValue(World, trackId, step, value)} :
        /\ HistoryOf("updateKeyframeValue", "", <<trackId, step>>, w)
        /\ UNCHANGED tickInfo

RemoveKeyframe(trackId, step) ==
    \E w \in {removeKeyframe(World, trackId, step)} :
        /\ HistoryOf("removeKeyframe", "", <<trackId, step>>, w)
        /\ UNCHANGED tickInfo

\* four steps, an empty track of the slider and an empty track of the border
\* colour, which is no slider
InitTracks ==
    /\ Stopped
    /\ numSteps = 4
    /\ sequencerSteps = [i \in 1..4 |-> null]
    /\ propertyTracks = <<[property |-> "scaleBorderWidth", keyframes |-> <<>>],
                          [property |-> "scaleBorderColor", keyframes |-> <<>>]>>
    /\ interpolationSpeed = Num(0)
    /\ bpm = 120
    /\ Settled

\* the values a keyframe is given: the top of the slider's range, and a
\* value above it
KeyframeValues == {Num(10), Num(25)}

NextTracks ==
    \/ \E trackId \in TrackIds, step \in KeyframeSteps : AddKeyframe(trackId, step)
    \/ \E trackId \in TrackIds, step \in KeyframeSteps, value \in KeyframeValues :
          UpdateKeyframeValue(trackId, step, value)
    \/ \E trackId \in TrackIds, step \in KeyframeSteps : RemoveKeyframe(trackId, step)
    \/ Play
    \/ Stop
    \/ Frame

SpecTracks == InitTracks /\ [][NextTracks]_vars

UniqueSteps(tracks) ==
    \A t \in DOMAIN tracks :
        \A i, j \in DOMAIN tracks[t].keyframes :
            i # j => tracks[t].keyframes[i].step # tracks[t].keyframes[j].step

\* C17: the keyframes of a track are at pairwise distinct steps in every
\* state; addKeyframe at a step that has a keyframe leaves every track as it
\* was, updateKeyframeValue changes no step and the number of keyframes of
\* no track, and removeKeyframe adds no keyframe.
KeyframeUniqueness ==
    [][/\ UniqueSteps(propertyTracks) /\ UniqueSteps(propertyTracks')
       /\ \A t \in DOMAIN propertyTracks :
             LET before == propertyTracks[t].keyframes
                 after == propertyTracks'[t].keyframes
             IN  /\ (/\ last'.op = "addKeyframe"
                     /\ last'.data[1] = t
                     /\ occupied(before, last'.data[2])) =>
                       propertyTracks' = propertyTracks
                 /\ last'.op = "updateKeyframeValue" =>
                       /\ Len(after) = Len(before)
                       /\ \A i \in DOMAIN before : after[i].step = before[i].step
                 /\ last'.op = "removeKeyframe" => Len(after) <= Len(before)]_vars

\* addKeyframe was just called at a step of the slider's track that has a
\* keyframe whose value was edited, while two keyframes are in the track
KeyframeAddedTwice ==
    /\ last.op = "addKeyframe"
    /\ last.data = <<1, Num(2)>>
    /\ Len(propertyTracks[1].keyframes) = 2
    /\ \E i \in DOMAIN propertyTracks[1].keyframes :
          propertyTracks[1].keyframes[i] = Keyframe(2, 10)
    /\ isSequencerPlaying

(* ------------------------------------------------------------------ *)
(* Claims about cancellation and the animation table                   *)
(* ------------------------------------------------------------------ *)

\* C18: cancelAllAnimations leaves the table empty,
\* cancelAnimationForProperty(P) leaves it without P's animation and with
\* the animation of every other parameter as it was, and neither changes a
\* resolved value.
CancellationOnlyRemoves ==
    [][/\ last'.op = "cancelAllAnimations" =>
            /\ activeAnimations' = <<>>
            /\ currentSettings' = currentSettings
       /\ last'.op = "cancelAnimationForProperty" =>
            /\ DOMAIN activeAnimations' = DOMAIN activeAnimations \ {last'.property}
            /\ \A p \in DOMAIN activeAnimations' :
                  activeAnimations'[p] = activeAnimations[p]
            /\ currentSettings' = currentSettings]_vars

\* the slider's animation was just cancelled part-way, at 5 between 0 and
\* 10, while the animation of the border colour stays in the table
CancelledPartWay ==
    /\ last.op = "cancelAnimationForProperty"
    /\ last.property = "scaleBorderWidth"
    /\ last.removed = {"scaleBorderWidth"}
    /\ currentSettings["scaleBorderWidth"] = Num(5)
    /\ "scaleBorderColor" \in DOMAIN activeAnimations

\* C19: in every state the table holds, for each parameter, at most one
\* animation: the table is keyed by parameter and every entry is the
\* animation of the parameter it is stored under.
OneAnimationPerParameter ==
    /\ DOMAIN activeAnimations \subseteq Props
    /\ \A p \in DOMAIN activeAnimations :
          activeAnimations[p].request.property = p

\* a request has just replaced the slider's animation, the only one in the
\* table, by a new one at frame 0
AnimationReplaced ==
    /\ Requested
    /\ Call.property = "scaleBorderWidth"
    /\ DOMAIN activeAnimations = {"scaleBorderWidth"}
    /\ activeAnimations["scaleBorderWidth"].currentFrame = 0
    /\ activeAnimations["scaleBorderWidth"].request.to = Call.to

(* ------------------------------------------------------------------ *)
(* Ramps requested at several tempos                                   *)
(* ------------------------------------------------------------------ *)

\* the ends of the BPM slider and the default tempo
FrameBpms == {30, 120, 240}

\* a sixteenth of a step, a quarter of a step, a step and a half
FrameSteps == {Number(1, 16), Number(1, 4), Number(3, 2)}

NextFrames ==
    \/ \E b \in FrameBpms : SetBpm(b)
    \/ \E steps \in FrameSteps, source \in {PatternSequencer, UI},
          to \in ValuesOf("scaleBorderWidth") :
          Request("scaleBorderWidth", undefined, to, steps, source)
    \/ Frame

SpecFrames == Init /\ [][NextFrames]_vars

\* max(1, round(x / y)) for whole numbers x >= 0 and y > 0
roundedAtLeastOne(x, y) ==
    LET rounded == (2 * x + y) \div (2 * y)
    IN  IF rounded < 1 THEN 1 ELSE rounded

\* C20: a request with stepCount > 0 that is not outranked gets totalFrames
\* = max(1, round(stepCount * framesPerStep)), framesPerStep = max(1,
\* round((60 / (bpm * 4)) * 60)) for the BPM stored when the request is made:
\* a whole number >= 1 also for a fraction of a step; the animation is in
\* the table with that count unless its one frame ran within the call.
TotalFramesI3 ==
    [][(/\ Requested'
        /\ Less(Num(0), Call'.steps)
        /\ ~(/\ Call'.property \in DOMAIN activeAnimations
             /\ Call'.source < activeAnimations[Call'.property].request.source)) =>
        LET p == Call'.property
            perStep == roundedAtLeastOne(60 * 60, bpm * 4)
            totalFrames == roundedAtLeastOne(Call'.steps.n * perStep, Call'.steps.d)
        IN  /\ p \in DOMAIN activeAnimations' =>
                  /\ activeAnimations'[p].totalFrames = totalFrames
                  /\ activeAnimations'[p].totalFrames \in Nat \ {0}
            /\ p \notin DOMAIN activeAnimations' =>
                  (totalFrames = 1 /\ activeAnimations = <<>>)]_vars

\* a sixteenth of a step at 240 BPM, a quarter of a frame, is an animation
\* of one frame that waits in the table for the next display frame
QuarterFrameRamp ==
    /\ Requested
    /\ bpm = 240
    /\ Call.steps = Number(1, 16)
    /\ Call.property \in DOMAIN activeAnimations
    /\ activeAnimations[Call.property].request.steps = Call.steps
    /\ activeAnimations[Call.property].totalFrames = 1
    /\ activeAnimations[Call.property].currentFrame = 0

(* ------------------------------------------------------------------ *)
(* Animations in flight across tempo changes                           *)
(* ------------------------------------------------------------------ *)

\* C21: the duration of an animation is frozen when it is requested:
\* setSequencerBpm leaves the table of animations in flight as it is
\* (neither totalFrames nor currentFrame changes), and in a display frame
\* an animation that stays in the table keeps its totalFrames and advances
\* by one frame below it, and one that leaves the table does so on the
\* frame that completes the count computed at its request.
DurationFrozen ==
    [][/\ last'.op = "setSequencerBpm" => activeAnimations' = activeAnimations
       /\ last'.op = "frame" =>
              \A p \in DOMAIN activeAnimations :
                 IF p \in DOMAIN activeAnimations'
                 THEN /\ activeAnimations'[p].totalFrames = activeAnimations[p].totalFrames
                      /\ activeAnimations'[p].request = activeAnimations[p].request
                      /\ activeAnimations'[p].currentFrame =
                             activeAnimations[p].currentFrame + 1
                      /\ activeAnimations'[p].currentFrame < activeAnimations[p].totalFrames
                 ELSE activeAnimations[p].currentFrame + 1 =
                         activeAnimations[p].totalFrames]_vars

\* an animation part way through a frame count that the tempo now stored
\* would not give it
TempoChangedInFlight ==
    /\ last.op = "frame"
    /\ \E p \in DOMAIN activeAnimations :
          /\ activeAnimations[p].currentFrame >= 1
          /\ activeAnimations[p].totalFrames #
                 totalFramesOf(activeAnimations[p].request.steps, bpm)

(* ------------------------------------------------------------------ *)
(* Range of the automated values                                       *)
(* ------------------------------------------------------------------ *)

\* C22: every value the property sequencer submits for a track lies within
\* the range [min, max] that the control schema declares for the slider of
\* the track's property, whatever values addKeyframe and
\* updateKeyframeValue have stored in the keyframes.
AutomationWithinRange ==
    \A i \in Automated :
       submitted[i].property \in DOMAIN controlConfigs =>
          LET config == controlConfigs[submitted[i].property]
          IN  /\ IsNumber(submitted[i].to)
              /\ ~Less(submitted[i].to, config.min)
              /\ ~Less(config.max, submitted[i].to)

(* ------------------------------------------------------------------ *)
(* Frame callbacks of the animation loop                               *)
(* ------------------------------------------------------------------ *)

\* C23: under any interleaving of requests, cancels and display frames at
\* most one callback of _animationLoop is pending, and a display frame adds
\* exactly 1 to the currentFrame of every animation it leaves in the table.
OneAdvancePerDisplayFrame ==
    [][/\ Cardinality({i \in DOMAIN rafQueue' :
                          rafQueue'[i].fn = "_animationLoop"}) <= 1
       /\ last'.op = "frame" =>
              \A p \in DOMAIN activeAnimations \cap DOMAIN activeAnimations' :
                 activeAnimations'[p].currentFrame =
                    activeAnimations[p].currentFrame + 1]_vars

(* ------------------------------------------------------------------ *)
(* Clock changes while the sequencer runs                              *)
(* ------------------------------------------------------------------ *)

\* C24: setSequencerBpm and setSequencerNumSteps leave the scheduled tick
\* as it is, and a change disturbs at most one tick interval: when two ticks
\* follow one another with no change between them and every timeout since
\* play() fired on time, the tick after them is scheduled exactly one
\* stepDuration of the stored tempo after the second.
ClockChangeOneIrregularTick ==
    [][/\ last'.op \in {"setSequencerBpm", "setSequencerNumSteps"} =>
              /\ timers' = timers
              /\ sequencerTimeoutId' = sequencerTimeoutId
       /\ (/\ last.op = "tick"
           /\ last'.op = "tick"
           /\ isSequencerPlaying'
           /\ tickInfo'.onTime) =>
              \A t \in ScheduledTick' :
                 Minus(t.at, now') = stepDurationOf(bpm')]_vars

(* ------------------------------------------------------------------ *)
(* The automation of a tick                                            *)
(* ------------------------------------------------------------------ *)

\* C25: the tick that advances to step nextStep submits, for every property
\* track with at least one keyframe, exactly one request of the property
\* sequencer for the track's parameter, immediate (0 steps), whose value is
\* the keyframe interpolation evaluated at s = nextStep.
TickAutomatesAtNextStep ==
    (last.op = "tick" /\ isSequencerPlaying) =>
        \A j \in DOMAIN propertyTracks :
           propertyTracks[j].keyframes # <<>> =>
              LET calls == AutomationRequests(submitted, propertyTracks[j].property)
              IN  /\ Cardinality(calls) = 1
                  /\ \A i \in calls :
                        /\ submitted[i].steps = Num(0)
                        /\ submitted[i].to =
                              interpolatedValueOf(
                                  sortedKeyframesOf(propertyTracks[j].keyframes),
                                  Num(sequencerCurrentStep), numSteps)

(* ------------------------------------------------------------------ *)
(* The requests of a pattern change                                    *)
(* ------------------------------------------------------------------ *)

\* C26: a tick whose step holds a pattern other than the loaded one submits
\* a request of the pattern sequencer for exactly the parameters whose value
\* differs between the previous pattern (the current settings when no
\* pattern was loaded) and the new one, arrays compared by content: one
\* request for each, from the previous value to the new one over the
\* sequence's interpolation speed, and none for a parameter that does not
\* differ; a tick that loads no pattern submits none.
PatternDiff ==
    [][last'.op \in {"play", "tick"} =>
          LET patternIdToLoad == sequencerSteps[sequencerCurrentStep' + 1]
              loads == /\ truthy(patternIdToLoad)
                       /\ patternIdToLoad # selectedPatternId
                       /\ findPattern(patternIdToLoad) # undefined
              previousPattern == findPattern(selectedPatternId)
              baseSettings == IF previousPattern # undefined
                              THEN previousPattern.settings ELSE currentSettings
          IN  \A p \in Props :
                 LET calls == PatternRequests(submitted', p)
                 IN  IF loads /\ findPattern(patternIdToLoad).settings[p] # baseSettings[p]
                     THEN /\ Cardinality(calls) = 1
                          /\ \A i \in calls :
                                /\ submitted'[i].from = baseSettings[p]
                                /\ submitted'[i].to =
                                      findPattern(patternIdToLoad).settings[p]
                                /\ submitted'[i].steps = interpolationSpeed
                     ELSE calls = {}]_vars

\* the tick of step 2 has replaced the second pattern by the first: a
\* request for the slider and one for the border colour, none for the
\* gradient, which the two patterns share
PatternChangedOnTick ==
    /\ last.op = "tick"
    /\ sequencerCurrentStep = 2
    /\ selectedPatternId = patternId(1)
    /\ Cardinality(PatternRequests(submitted, "scaleBorderWidth")) = 1
    /\ Cardinality(PatternRequests(submitted, "scaleBorderColor")) = 1
    /\ PatternRequests(submitted, "gradientColors") = {}
    /\ currentSettings["gradientColors"] = Gradient(1)

(* ------------------------------------------------------------------ *)
(* The step counter and the loop counter                               *)
(* ------------------------------------------------------------------ *)

\* the step and loop rule of one tick: play() ticks from step -1 and loop 0
StepAdvanceRule ==
    [][(last'.op \in {"play", "tick"} /\ isSequencerPlaying') =>
          LET currentStep == IF last'.op = "play" THEN -1 ELSE sequencerCurrentStep
              loopCount == IF last'.op = "play" THEN 0 ELSE sequencerLoopCount
          IN  /\ sequencerCurrentStep' = (currentStep + 1) % numSteps
              /\ sequencerLoopCount' =
                    IF sequencerCurrentStep' = 0 /\ currentStep # -1
                    THEN loopCount + 1 ELSE loopCount]_vars

\* C27: every tick sets currentStep to (currentStep + 1) mod stepCount and
\* adds exactly 1 to loopCount if and only if the new step is 0 and the
\* previous currentStep was not -1; so, as long as the clock has not been
\* changed since play(), loopCount * stepCount + currentStep is the number
\* of ticks since play() minus 1.
StepAdvance ==
    /\ StepAdvanceRule
    /\ [](Ticked /\ tickInfo.steady =>
             sequencerLoopCount * numSteps + sequencerCurrentStep =
                tickInfo.ticks - 1)

\* C27 as stated: the count of ticks is loopCount * stepCount + currentStep
\* + 1 after every tick, whatever has happened to stepCount since play()
StepAdvanceAnyStepCount ==
    /\ StepAdvanceRule
    /\ [](Ticked =>
             sequencerLoopCount * numSteps + sequencerCurrentStep =
                tickInfo.ticks - 1)

\* the tick that wraps a loop of four steps for the first time
FirstWrap ==
    /\ last.op = "tick" /\ isSequencerPlaying /\ tickInfo.steady
    /\ numSteps = 4
    /\ sequencerCurrentStep = 0
    /\ sequencerLoopCount = 1
    /\ tickInfo.ticks = 5

\* C28: in every reachable state, under any interleaving of play, stop,
\* ticks, setSequencerNumSteps and setSequencerBpm, currentStep is an
\* integer with -1 <= currentStep <= stepCount - 1.
StepRange ==
    /\ sequencerCurrentStep \in Int
    /\ -1 <= sequencerCurrentStep
    /\ sequencerCurrentStep <= numSteps - 1

(* ------------------------------------------------------------------ *)
(* Termination of the animations                                       *)
(* ------------------------------------------------------------------ *)

\* at once, a quarter of a step (2 frames at 120 BPM), a step and a half
\* (12 frames)
DrainSteps == {Num(0), Number(1, 4), Number(3, 2)}

\* a bounded number of requests, any number of cancels, and display frames
NextDrain ==
    \/ \E steps \in DrainSteps, source \in {PatternSequencer, UI},
          to \in ValuesOf("scaleBorderWidth") :
          Move("scaleBorderWidth", to, steps, source)
    \/ \E to \in ValuesOf("scaleBorderColor") :
          Move("scaleBorderColor", to, Number(1, 4), UI)
    \/ Frame
    \/ CancelAll
    \/ \E property \in {"scaleBorderWidth", "scaleBorderColor"} : CancelFor(property)

\* the browser runs the registered callbacks on every display frame: weak
\* fairness of Frame, WF_vars(Frame), written out; Frame is enabled exactly
\* when a callback is registered, and it always changes the state
FrameFairness == []<>(rafQueue = <<>>) \/ []<><<Frame>>_vars

SpecDrain == Init /\ [][NextDrain]_vars /\ FrameFairness

\* the callbacks of the animation loop waiting for the next display frame
PendingLoops == {i \in DOMAIN rafQueue : rafQueue[i].fn = "_animationLoop"}

\* C29: the frame loop never stops while the table is non-empty (a callback
\* of the loop is pending whenever an animation is in the table); a display
\* frame advances every animation once per pending callback and removes it
\* exactly when its currentFrame reaches totalFrames; and when display
\* frames keep coming and the requests come to an end, the table becomes
\* empty and stays empty: no animation stays in the table forever.
AnimationsTerminate ==
    /\ [](activeAnimations # <<>> => PendingLoops # {})
    /\ [][last'.op = "frame" =>
             \A p \in DOMAIN activeAnimations :
                LET reached == activeAnimations[p].currentFrame
                                  + Cardinality(PendingLoops)
                IN  IF reached < activeAnimations[p].totalFrames
                    THEN /\ p \in DOMAIN activeAnimations'
                         /\ activeAnimations'[p].currentFrame = reached
                         /\ activeAnimations'[p].totalFrames =
                                activeAnimations[p].totalFrames
                    ELSE p \notin DOMAIN activeAnimations']_vars
    /\ <>[](activeAnimations = <<>>)

\* the last frame of the ramp of a single request has emptied the table and
\* left no callback behind
RampDrained ==
    /\ last.op = "frame"
    /\ last.removed = {"scaleBorderWidth"}
    /\ tickInfo.commands = 1
    /\ currentSettings["scaleBorderWidth"] = Num(10)
    /\ activeAnimations = <<>>
    /\ rafQueue = <<>>

(* ------------------------------------------------------------------ *)
(* The frame counter                                                   *)
(* ------------------------------------------------------------------ *)

\* C30: in every state between callbacks each animation in the table has a
\* whole totalFrames >= 1 and a whole currentFrame with 0 <= currentFrame <
\* totalFrames: an animation whose currentFrame has reached totalFrames is
\* no longer in the table.
FrameCounterInvariant ==
    \A p \in DOMAIN activeAnimations :
       /\ activeAnimations[p].totalFrames \in Nat
       /\ activeAnimations[p].totalFrames >= 1
       /\ activeAnimations[p].currentFrame \in Nat
       /\ activeAnimations[p].currentFrame < activeAnimations[p].totalFrames

\* a ramp of 12 frames one advance before its end, with two callbacks of
\* the loop pending
LastFramePending ==
    /\ last.op = "frame"
    /\ Cardinality(PendingLoops) = 2
    /\ \E p \in DOMAIN activeAnimations :
          /\ activeAnimations[p].totalFrames = 12
          /\ activeAnimations[p].currentFrame = 11

(* ------------------------------------------------------------------ *)
(* Tracks with no keyframe or a single keyframe                        *)
(* ------------------------------------------------------------------ *)

\* a slider track that is empty, or holds one keyframe on the first or on
\* the last step of a 4-step or 16-step sequence
InitDegenerate ==
    /\ Stopped
    /\ numSteps \in {4, 16}
    /\ sequencerSteps = [i \in 1..numSteps |-> null]
    /\ \E keyframes \in {<<>>, <<Keyframe(0, 10)>>, <<Keyframe(3, 5)>>} :
          propertyTracks = <<[property |-> "scaleBorderWidth",
                              keyframes |-> keyframes]>>
    /\ interpolationSpeed = Num(2)
    /\ bpm = 120
    /\ Settled

SpecDegenerate == InitDegenerate /\ [][NextInterp]_vars

\* C31: a track with no keyframe never produces a request, and a track
\* with exactly one keyframe produces that keyframe's value on every tick
\* and on every display frame of the running sequencer, wherever in the
\* loop the sequencer is and whatever the step count.
DegenerateTracks ==
    \A j \in DOMAIN propertyTracks :
       LET track == propertyTracks[j]
           calls == AutomationRequests(submitted, track.property)
       IN  /\ Len(track.keyframes) = 0 => calls = {}
           /\ (/\ Len(track.keyframes) = 1
               /\ last.op \in {"play", "tick", "frame"}
               /\ isSequencerPlaying) =>
                  /\ calls # {}
                  /\ \A i \in calls : submitted[i].to = track.keyframes[1].value

\* the single keyframe of step 3 gives the slider its value on the tick of
\* step 2, after the loop has wrapped
ConstantTrack ==
    /\ last.op = "tick" /\ isSequencerPlaying
    /\ numSteps = 4
    /\ sequencerLoopCount = 1
    /\ sequencerCurrentStep = 2
    /\ propertyTracks[1].keyframes = <<Keyframe(3, 5)>>
    /\ Automated # {}
    /\ currentSettings["scaleBorderWidth"] = Num(5)

(* ------------------------------------------------------------------ *)
(* The tick timer and the automation callback                          *)
(* ------------------------------------------------------------------ *)

\* C32: under any interleaving of play() (also of a running sequencer),
\* stop(), timer firings and changes of the tempo and of the step count,
\* exactly one tick timer and exactly one automation callback are pending
\* while the sequencer runs, the ones the store holds the handles of, and
\* none while it is stopped: no two chains run at the same time.
SingleTickTimer ==
    IF isSequencerPlaying
    THEN /\ Cardinality(timers) = 1
         /\ ScheduledTick = timers
         /\ Cardinality(PendingAutomation) = 1
         /\ \A i \in PendingAutomation : Num(rafQueue[i].id) = propertySequencerRafId
    ELSE /\ timers = {}
         /\ PendingAutomation = {}

\* play() of a sequencer that had ticked past its first step: the timer of
\* the old chain is gone
RestartedWithOneTimer ==
    /\ last.op = "play"
    /\ last.restart
    /\ tickInfo.plays = 2
    /\ sequencerCurrentStep = 0
    /\ Cardinality(timers) = 1
    /\ Cardinality(PendingAutomation) = 1

(* ------------------------------------------------------------------ *)
(* The automated value on the step of a keyframe                       *)
(* ------------------------------------------------------------------ *)

\* C33: for a track with two or more keyframes on different steps within
\* the loop, the value the sequencer submits when its position is exactly
\* the step of a keyframe is the value of that keyframe, the keyframe with
\* the largest step included.
PassesThroughKeyframes ==
    (last.op \in {"play", "tick", "frame"} /\ isSequencerPlaying) =>
        \A j \in DOMAIN propertyTracks :
           LET track == propertyTracks[j]
           IN  Len(track.keyframes) >= 2 =>
                  \A k \in DOMAIN track.keyframes :
                     track.keyframes[k].step = fractionalStepOf(World) =>
                        \A i \in AutomationRequests(submitted, track.property) :
                           submitted[i].to = track.keyframes[k].value

(* ------------------------------------------------------------------ *)
(* Convergence on the pattern of a step                                *)
(* ------------------------------------------------------------------ *)

\* four steps with the second pattern on step 0 and the first on step 2, no
\* track; patterns load at once or over a quarter of a step
InitConverge ==
    /\ Stopped
    /\ numSteps = 4
    /\ sequencerSteps = <<patternId(2), null, patternId(1), null>>
    /\ propertyTracks = <<>>
    /\ interpolationSpeed \in {Num(0), Number(1, 4)}
    /\ bpm = 120
    /\ Settled

\* the sequencer runs while the slider is moved by hand or by MIDI and the
\* gradient, which the two patterns share, is changed by hand
NextConverge ==
    \/ Play
    \/ TimerFire(0)
    \/ Frame
    \/ \E source \in {UI, MIDI}, to \in ValuesOf("scaleBorderWidth") :
         Move("scaleBorderWidth", to, Number(1, 4), source)
    \/ \E to \in ValuesOf("gradientColors"), steps \in {Num(0), Number(1, 4)} :
         Move("gradientColors", to, steps, UI)

SpecConverge == InitConverge /\ [][NextConverge]_vars

\* the last step was a tick that loaded the pattern of its step
PatternLoaded ==
    /\ last.op \in {"play", "tick"}
    /\ isSequencerPlaying
    /\ \E p \in Props : PatternRequests(submitted, p) # {}

\* the parameters a loading tick asked for and was not refused: no
\* animation of another source is left in flight for them
AcceptedOfPattern ==
    {p \in Props :
        /\ PatternRequests(submitted, p) # {}
        /\ (p \in DOMAIN activeAnimations =>
               activeAnimations[p].request.source = PatternSequencer)}

GradientTransitionSettled ==
    (\A p \in DOMAIN activeAnimations : ~isGradient(p)) =>
        transitionProgress = Num(1)

(* ------------------------------------------------------------------ *)
(* Keyframes and the length of the timeline                            *)
(* ------------------------------------------------------------------ *)

\* the step counts the timeline is given
TimelineLengths == {2, 4}

\* a lane shows numSteps cells and a click on cell stepIndex adds or removes
\* the keyframe of that step
LaneClickAdd(trackId, step) ==
    /\ Less(step, Num(numSteps))
    /\ AddKeyframe(trackId, step)

NextTimeline ==
    \/ \E trackId \in TrackIds, step \in KeyframeSteps : LaneClickAdd(trackId, step)
    \/ \E trackId \in TrackIds, step \in KeyframeSteps, value \in KeyframeValues :
          UpdateKeyframeValue(trackId, step, value)
    \/ \E trackId \in TrackIds, step \in KeyframeSteps : RemoveKeyframe(trackId, step)
    \/ \E n \in TimelineLengths : SetNumSteps(n)

SpecTimeline == InitTracks /\ [][NextTimeline]_vars

\* C36: after any sequence of addKeyframe, removeKeyframe,
\* updateKeyframeValue and setSequencerNumSteps every keyframe of every
\* track has 0 <= step < numSteps.
KeyframesOnTimeline ==
    \A j \in DOMAIN propertyTracks :
       \A k \in DOMAIN propertyTracks[j].keyframes :
          LET step == propertyTracks[j].keyframes[k].step
          IN  /\ ~Less(step, Num(0))
              /\ Less(step, Num(numSteps))

(* ------------------------------------------------------------------ *)
(* Priority compares with the animation in flight only                 *)
(* ------------------------------------------------------------------ *)

\* the request of the last step took effect: an immediate one wrote its value
\* and left no animation, an animated one is in the table or has completed
\* in the frame the request itself ran
Accepted ==
    LET p == Call.property
    IN  IF Call.steps = Num(0)
        THEN /\ p \notin DOMAIN activeAnimations
             /\ currentSettings[p] = Call.to
        ELSE \/ /\ p \in DOMAIN activeAnimations
                /\ activeAnimations[p].request.source = Call.source
                /\ activeAnimations[p].request.to = Call.to
                /\ activeAnimations[p].request.steps = Call.steps
             \/ /\ p \notin DOMAIN activeAnimations
                /\ currentSettings[p] = Call.to

\* C37: a request for P is dropped only while an animation for P of strictly
\* higher source priority is in flight; with no animation for P in flight a
\* request of any source is accepted, whatever source wrote P or animated it
\* before.
PriorityWithoutMemory ==
    [][Requested' =>
          \/ Accepted'
          \/ /\ Call'.property \in DOMAIN activeAnimations
             /\ Call'.source < activeAnimations[Call'.property].request.source]_vars

\* the slider was last animated by MIDI, nothing was in flight for it, and
\* an immediate request of the track automation has just written 0
AutomationOverwritesMidi ==
    /\ Requested
    /\ Call.property = "scaleBorderWidth"
    /\ Call.source = PropertySequencer
    /\ Call.steps = Num(0)
    /\ inFlightSource["scaleBorderWidth"] = MIDI
    /\ last.removed = {}
    /\ "scaleBorderWidth" \notin DOMAIN activeAnimations
    /\ currentSettings["scaleBorderWidth"] = Num(0)

(* ------------------------------------------------------------------ *)
(* The preview of a track lane                                         *)
(* ------------------------------------------------------------------ *)

\* sortedKeyframes.find(k => k.step <= stepIndex), 0 when there is none
findIndexAtOrBefore(sortedKeyframes, stepIndex) ==
    LET upTo == {i \in DOMAIN sortedKeyframes :
                    ~Less(stepIndex, sortedKeyframes[i].step)}
    IN  IF upTo = {} THEN 0
        ELSE CHOOSE i \in upTo : \A j \in upTo : i <= j

\* the value a lane shows for the cell stepIndex; null for an empty track
getInterpolatedValueForStep(keyframes, n, stepIndex) ==
    LET sortedKeyframes == sortedKeyframesOf(keyframes)
        prevIndex == findIndexAtOrBefore(sortedKeyframes, stepIndex)
        nextIndex == findIndexAfter(sortedKeyframes, stepIndex)
        \* find(...) || last, and last again when every keyframe lies after
        prevKeyframe == IF prevIndex = 0 THEN sortedKeyframes[Len(sortedKeyframes)]
                        ELSE sortedKeyframes[prevIndex]
        \* find(...) || first, and first again when none lies after
        nextKeyframe == IF nextIndex = 0 THEN sortedKeyframes[1]
                        ELSE sortedKeyframes[nextIndex]
        diff == Minus(nextKeyframe.step, prevKeyframe.step)
        gone == Minus(stepIndex, prevKeyframe.step)
        loops == Less(diff, Num(0))
        stepDiff == IF loops THEN Plus(diff, Num(n)) ELSE diff
        progress == IF loops /\ Less(gone, Num(0)) THEN Plus(gone, Num(n)) ELSE gone
    IN  IF sortedKeyframes = <<>> THEN null
        ELSE IF prevKeyframe.step = nextKeyframe.step THEN prevKeyframe.value
        ELSE IF stepDiff.n = 0 THEN NaN
        ELSE lerp(prevKeyframe.value, nextKeyframe.value, Over(progress, stepDiff))

\* C38: for every track and every integer step i of the timeline the value
\* the lane previews for cell i is the value the automation submits when the
\* sequencer is at step i.
PreviewAgreesWithEngine ==
    (last.op \in {"play", "tick", "frame"} /\ isSequencerPlaying) =>
        \A j \in DOMAIN propertyTracks :
           \A i \in 0..(numSteps - 1) :
              fractionalStepOf(World) = Num(i) =>
                 \A r \in AutomationRequests(submitted, propertyTracks[j].property) :
                    submitted[r].to =
                       getInterpolatedValueForStep(propertyTracks[j].keyframes,
                                                   numSteps, Num(i))

(* ------------------------------------------------------------------ *)
(* A request touches its own parameter only                            *)
(* ------------------------------------------------------------------ *)

\* C39: a call of requestPropertyChange for P, accepted or dropped,
\* immediate or animated, changes neither the resolved value nor the
\* animation in flight nor the frame counter of any other parameter.
RequestIsolation ==
    [][Requested' =>
          \A q \in Props \ {Call'.property} :
             /\ currentSettings'[q] = currentSettings[q]
             /\ q \in DOMAIN activeAnimations' <=> q \in DOMAIN activeAnimations
             /\ q \in DOMAIN activeAnimations =>
                   /\ activeAnimations'[q] = activeAnimations[q]
                   /\ activeAnimations'[q].currentFrame
                         = activeAnimations[q].currentFrame]_vars

\* an immediate request has just removed the animation of the slider while
\* the animation of the border colour is part-way, one frame in
RequestBesideAnimation ==
    /\ Requested
    /\ Call.property = "scaleBorderWidth"
    /\ Call.steps = Num(0)
    /\ last.removed = {"scaleBorderWidth"}
    /\ currentSettings["scaleBorderWidth"] = Call.to
    /\ "scaleBorderColor" \in DOMAIN activeAnimations
    /\ activeAnimations["scaleBorderColor"].currentFrame = 1
    /\ activeAnimations["scaleBorderColor"].totalFrames = 2

====
